---- MODULE Spec2Model ----
(***************************************************************************)
(* A model of s3utils: the object-key builders and the S3 gateway          *)
(* (Client) of client.go.                                                  *)
(*                                                                         *)
(* The source tree holds three revisions of client.go:                     *)
(*   "plain"      src/client.go and src/unnamed/part_001:1-258             *)
(*                (the same functions, part_001 adds UploadFileBase,       *)
(*                GetObject and generateObjectKeyBase);                    *)
(*   "logger"     src/unnamed/part_001:260-418;                            *)
(*   "validating" src/unnamed/part_001:420-793, the revision the tests of  *)
(*                client_test.go and the errors of part_000 belong to.     *)
(* The variable rev says which revision is built; it never changes.        *)
(*                                                                         *)
(* Strings are sequences of one-character strings, so that Trim, Split and *)
(* prefix tests are computed character by character.                       *)
(***************************************************************************)
EXTENDS Integers, Sequences, FiniteSets, TLC

VARIABLES
    rev,      \* the revision of client.go in use
    kin,      \* key builders: the inputs [d, p, t] of the pure functions
    kout,     \* key builders: the results computed so far
    buckets,  \* provider: the buckets that exist
    objects,  \* provider: <<bucket, key>> -> body, the stored objects
    fs,       \* local filesystem: path -> content of the files that exist
    call,     \* the invocation in progress or last finished: its arguments,
              \* its position pc, what it returned (ret, exists), the external
              \* calls it made (log) and the state it started in (before)
    nops,     \* the number of invocations started so far
    conc,     \* the uploads other callers ran on the same Client while the
              \* invocation of call stood between its listing and its
              \* DeleteObjects request
    last      \* while call is a DeleteFolderByDate or none: the arguments of
              \* the invocation that returned just before, if that was an
              \* UploadFileWithDateDestination that returned nil

vars == <<rev, kin, kout, buckets, objects, fs, call, nops, conc, last>>

-----------------------------------------------------------------------------
(* Bounds *)

\* the longest directory / file path drawn for the key builders
MaxLen == 3
\* the number of gateway invocations in one behaviour
MaxOps == 2
\* the number of keys the provider returns in one page of a listing
PageSize == 2

-----------------------------------------------------------------------------
(* Strings *)

Revisions == {"plain", "logger", "validating"}

Slash == "/"

\* all strings over alphabet A of length at most n
RECURSIVE StringsUpTo(_, _)
StringsUpTo(A, n) ==
    IF n = 0 THEN {<<>>}
    ELSE LET S == StringsUpTo(A, n - 1)
         IN  S \cup {Append(s, c) : s \in {x \in S : Len(x) = n - 1}, c \in A}

Decimals == <<"0", "1", "2", "3", "4", "5", "6", "7", "8", "9">>

\* fmt's %v of a non-negative int: decimal, no padding
RECURSIVE Itoa(_)
Itoa(n) ==
    IF n < 10 THEN <<Decimals[n + 1]>>
    ELSE Append(Itoa(n \div 10), Decimals[(n % 10) + 1])

\* time's appendInt(b, x, width): decimal, zero-padded to width
RECURSIVE appendInt(_, _)
appendInt(x, width) ==
    LET s == Itoa(x)
    IN  IF Len(s) >= width THEN s
        ELSE <<"0">> \o appendInt(x, width - 1)

\* strings.TrimLeft(s, "/")
RECURSIVE TrimLeft(_)
TrimLeft(s) ==
    IF s # <<>> /\ Head(s) = Slash THEN TrimLeft(Tail(s)) ELSE s

\* strings.TrimRight(s, "/")
RECURSIVE TrimRight(_)
TrimRight(s) ==
    IF s # <<>> /\ s[Len(s)] = Slash
    THEN TrimRight(SubSeq(s, 1, Len(s) - 1))
    ELSE s

\* strings.Trim(s, "/")
Trim(s) == TrimRight(TrimLeft(s))

\* strings.Split(s, "/"): the segments between separators, at least one
RECURSIVE SplitFrom(_, _)
SplitFrom(s, cur) ==
    IF s = <<>> THEN <<cur>>
    ELSE IF Head(s) = Slash THEN <<cur>> \o SplitFrom(Tail(s), <<>>)
    ELSE SplitFrom(Tail(s), Append(cur, Head(s)))

Split(s) == SplitFrom(s, <<>>)

\* strings.HasPrefix(s, p)
HasPrefix(s, p) == Len(p) <= Len(s) /\ SubSeq(s, 1, Len(p)) = p

-----------------------------------------------------------------------------
(* Dates: a time.Time in UTC, as its calendar date and the time of day     *)
(* (nanoseconds since midnight, 0 or more).                                *)

Date(y, m, d, n) == [year |-> y, month |-> m, day |-> d, nsec |-> n]

\* time.Time{}: January 1, year 1, 00:00:00 UTC
ZeroDate == Date(1, 1, 1, 0)

\* time.Time.IsZero
IsZero(t) == t = ZeroDate

\* date.Year() under %v
YearField(t) == Itoa(t.year)
\* date.Format("01")
MonthField(t) == appendInt(t.month, 2)
\* date.Format("02")
DayField(t) == appendInt(t.day, 2)
\* date.Format(time.DateOnly), the layout "2006-01-02"
DateOnly(t) ==
    appendInt(t.year, 4) \o <<"-">> \o appendInt(t.month, 2)
        \o <<"-">> \o appendInt(t.day, 2)

LitYear == <<"/", "_", "y", "e", "a", "r", "=">>
LitMonth == <<"/", "_", "m", "o", "n", "t", "h", "=">>
LitDay == <<"/", "_", "d", "a", "y", "=">>
LitDate == <<"/", "_", "d", "a", "t", "e", "=">>

\* the format "/_year=%v/_month=%v/_day=%v/_date=%v" applied to the date
DatePartition(t) ==
    LitYear \o YearField(t) \o LitMonth \o MonthField(t)
        \o LitDay \o DayField(t) \o LitDate \o DateOnly(t)

-----------------------------------------------------------------------------
(* The key builders *)

\* generateFolderDestinationByDate with its strings.Trim line left out, while
\* generateObjectKeyByDate keeps it
FolderNoTrim(directory, date) == directory \o DatePartition(date)

\* generateObjectKeyByDate with its strings.Trim line left out, while
\* generateFolderDestinationByDate keeps it
KeyByDateNoTrim(directory, filePath, date) ==
    LET parts == Split(filePath)
        fileName == parts[Len(parts)]
    IN  directory \o DatePartition(date) \o <<Slash>> \o fileName

\* revision "validating"
generateObjectKeyByDate(directory, filePath, date) ==
    LET dir == Trim(directory)
        parts == Split(filePath)
        fileName == parts[Len(parts)]
    IN  dir \o DatePartition(date) \o <<Slash>> \o fileName

generateObjectKeyBase(directory, filename) ==
    LET dir == Trim(directory)
    IN  dir \o <<Slash>> \o filename

generateFolderDestinationByDate(directory, date) ==
    LET dir == Trim(directory)
    IN  dir \o DatePartition(date)

\* revisions "plain" and "logger": the directory is used as given
generateObjectKeyByDatePlain(directory, filePath, date) ==
    LET parts == Split(filePath)
        fileName == parts[Len(parts)]
    IN  directory \o DatePartition(date) \o <<Slash>> \o fileName

generateObjectKeyBasePlain(directory, filename) ==
    directory \o <<Slash>> \o filename

generateFolderDestinationByDatePlain(directory, date) ==
    directory \o DatePartition(date)

\* the builder the revision in use links
KeyByDate(directory, filePath, date) ==
    IF rev = "validating"
    THEN generateObjectKeyByDate(directory, filePath, date)
    ELSE generateObjectKeyByDatePlain(directory, filePath, date)

KeyBase(directory, filename) ==
    IF rev = "validating"
    THEN generateObjectKeyBase(directory, filename)
    ELSE generateObjectKeyBasePlain(directory, filename)

FolderByDate(directory, date) ==
    IF rev = "validating"
    THEN generateFolderDestinationByDate(directory, date)
    ELSE generateFolderDestinationByDatePlain(directory, date)

\* revision "logger" has no generateObjectKeyBase
HasKeyBase == rev # "logger"

-----------------------------------------------------------------------------
(* Errors (part_000) and the plain errors of the older revisions *)

\* a nil error
Nil == [kind |-> "nil", cause |-> FALSE]
\* NewValidationError(msg): a message, no wrapped error
NewValidationError == [kind |-> "ValidationError", cause |-> FALSE]
\* NewSDKError(msg, err): wraps err
NewSDKError == [kind |-> "SDKError", cause |-> TRUE]
\* NewS3Error(msg, err): wraps err
NewS3Error == [kind |-> "S3Error", cause |-> TRUE]
\* fmt.Errorf("..., %v", err): the cause is formatted into the text
Errorf == [kind |-> "error", cause |-> FALSE]
\* the error of os.Open or of the SDK returned as it is (revision "logger")
RawErr == [kind |-> "error", cause |-> FALSE]
\* log.Fatalf: the process exits, nothing is returned
Fatal == [kind |-> "fatal", cause |-> FALSE]

-----------------------------------------------------------------------------
(* The provider and the local filesystem *)

\* the bytes 0..127 that occur in keys, in increasing order
Ascii ==
    <<"-", ".", "/", "0", "1", "2", "3", "4", "5", "6", "7", "8", "9", "=",
      "_", "a", "b", "c", "d", "e", "f", "g", "h", "i", "j", "k", "l", "m",
      "n", "o", "p", "q", "r", "s", "t", "u", "v", "w", "x", "y", "z">>

Code(c) == CHOOSE i \in 1..Len(Ascii) : Ascii[i] = c

\* s sorts before t in the byte order the provider lists keys in
RECURSIVE LexLess(_, _)
LexLess(s, t) ==
    IF t = <<>> THEN FALSE
    ELSE IF s = <<>> THEN TRUE
    ELSE IF Head(s) = Head(t) THEN LexLess(Tail(s), Tail(t))
    ELSE Code(Head(s)) < Code(Head(t))

\* the keys of S in listing order
RECURSIVE Sorted(_)
Sorted(S) ==
    IF S = {} THEN <<>>
    ELSE LET m == CHOOSE k \in S : \A o \in S \ {k} : LexLess(k, o)
         IN  <<m>> \o Sorted(S \ {m})

Range(s) == {s[i] : i \in DOMAIN s}

\* the keys stored in bucket b that start with prefix
Matching(b, prefix) ==
    {x[2] : x \in {y \in DOMAIN objects : y[1] = b /\ HasPrefix(y[2], prefix)}}

\* a listing that follows the continuation tokens to the last page
ListObjectsAllPages(b, prefix) == Sorted(Matching(b, prefix))

\* ListObjectsV2 without a continuation token: the first page of Contents
ListObjectsV2(b, prefix) ==
    LET all == Sorted(Matching(b, prefix))
    IN  SubSeq(all, 1, IF Len(all) < PageSize THEN Len(all) ELSE PageSize)

\* the store after PutObject(b, k, body)
PutObject(b, k, body) ==
    [x \in DOMAIN objects \cup {<<b, k>>} |->
        IF x = <<b, k>> THEN body ELSE objects[x]]

\* the store after DeleteObjects / DeleteObject of keys ks in bucket b
DeleteObjects(b, ks) ==
    [x \in {y \in DOMAIN objects : ~(y[1] = b /\ y[2] \in ks)} |-> objects[x]]

\* the filesystem after os.Create(path) and a write of content
WriteFile(path, content) ==
    [x \in DOMAIN fs \cup {path} |-> IF x = path THEN content ELSE fs[x]]

\* a request the provider can serve names an existing bucket
Servable(b) == b \in buckets

\* one external call of an invocation, as recorded in call.log
\* (ok: the call succeeded)
Ev(api, b, k, ok) ==
    [api |-> api, bucket |-> b, key |-> k, keys |-> {}, ok |-> ok]
EvKeys(api, b, ks, ok) ==
    [api |-> api, bucket |-> b, key |-> <<>>, keys |-> ks, ok |-> ok]
\* a listing request with its prefix and the keys of the page it returned
EvList(b, prefix, contents, ok) ==
    [api |-> "ListObjectsV2", bucket |-> b, key |-> prefix,
     keys |-> {contents[i] : i \in DOMAIN contents}, ok |-> ok]

S3Apis ==
    {"PutObject", "ListObjectsV2", "DeleteObjects", "DeleteObject",
     "GetObject", "CreateBucket"}

-----------------------------------------------------------------------------
(* Outcomes of an invocation: what it returns, the calls it made and the    *)
(* state it leaves.                                                        *)

\* the invocation returns err having made the calls of log
Return(err, log) ==
    [pc |-> "done", ret |-> err, log |-> log, listed |-> <<>>,
     exists |-> FALSE, objects |-> objects, fs |-> fs, buckets |-> buckets]

\* the process exits inside the invocation
Exit(log) == [Return(Fatal, log) EXCEPT !.pc = "exit"]

\* the invocation has listed and goes on to its DeleteObjects request
Listed(page, log) ==
    [Return(Nil, log) EXCEPT !.pc = "listed", !.listed = page]

-----------------------------------------------------------------------------
(* Revision "validating" (part_001:420-793).  fault, ... are the    *)
(* outcomes of the external calls, chosen by the environment.              *)

\* the copying loop started one element late
BuildDeleteObjectsSkipFirst(contents) ==
    [i \in 1..(Len(contents) - 1) |-> contents[i + 1]]

\* the loop that copies the keys of listResp.Contents into deleteObjects
BuildDeleteObjects(contents) == [i \in 1..Len(contents) |-> contents[i]]

\* UploadFileBase with its directory check made after strings.Trim
UploadFileBaseChecksTrimmed(bucketName, directory, filePath, externalFilename, fault) ==
    IF bucketName = "" THEN Return(NewValidationError, <<>>)
    ELSE IF Trim(directory) = <<>> THEN Return(NewValidationError, <<>>)
    ELSE IF filePath = <<>> THEN Return(NewValidationError, <<>>)
    ELSE IF externalFilename = <<>> THEN Return(NewValidationError, <<>>)
    ELSE
      LET objectKey == generateObjectKeyBase(directory, externalFilename)
          open == <<Ev("os.Open", "", filePath, filePath \in DOMAIN fs)>>
          stat == Append(open, Ev("File.Stat", "", filePath, fault # "stat"))
          put == Append(stat, Ev("PutObject", bucketName, objectKey,
                            fault # "s3" /\ Servable(bucketName)))
      IN  IF filePath \notin DOMAIN fs THEN Return(NewSDKError, open)
          ELSE IF fault = "stat" THEN Return(NewSDKError, stat)
          ELSE IF Len(fs[filePath]) = 0 THEN Return(NewValidationError, stat)
          ELSE IF (fault = "s3" \/ ~Servable(bucketName)) THEN Return(NewS3Error, put)
          ELSE [Return(Nil, put) EXCEPT
                  !.objects = PutObject(bucketName, objectKey, fs[filePath])]

UploadFileBase(bucketName, directory, filePath, externalFilename, fault) ==
    IF bucketName = "" THEN Return(NewValidationError, <<>>)
    ELSE IF directory = <<>> THEN Return(NewValidationError, <<>>)
    ELSE IF filePath = <<>> THEN Return(NewValidationError, <<>>)
    ELSE IF externalFilename = <<>> THEN Return(NewValidationError, <<>>)
    ELSE
      LET objectKey == generateObjectKeyBase(directory, externalFilename)
          open == <<Ev("os.Open", "", filePath, filePath \in DOMAIN fs)>>
          stat == Append(open, Ev("File.Stat", "", filePath, fault # "stat"))
          put == Append(stat, Ev("PutObject", bucketName, objectKey,
                            fault # "s3" /\ Servable(bucketName)))
      IN  IF filePath \notin DOMAIN fs THEN Return(NewSDKError, open)
          ELSE IF fault = "stat" THEN Return(NewSDKError, stat)
          ELSE IF Len(fs[filePath]) = 0 THEN Return(NewValidationError, stat)
          ELSE IF (fault = "s3" \/ ~Servable(bucketName)) THEN Return(NewS3Error, put)
          ELSE [Return(Nil, put) EXCEPT
                  !.objects = PutObject(bucketName, objectKey, fs[filePath])]

\* UploadFileWithDateDestination with the size check moved after PutObject
UploadDatedSizeCheckAfterPut(bucketName, directory, filePath, date, fault) ==
    IF bucketName = "" THEN Return(NewValidationError, <<>>)
    ELSE IF directory = <<>> THEN Return(NewValidationError, <<>>)
    ELSE IF filePath = <<>> THEN Return(NewValidationError, <<>>)
    ELSE IF IsZero(date) THEN Return(NewValidationError, <<>>)
    ELSE
      LET objectKey == generateObjectKeyByDate(directory, filePath, date)
          open == <<Ev("os.Open", "", filePath, filePath \in DOMAIN fs)>>
          stat == Append(open, Ev("File.Stat", "", filePath, fault # "stat"))
          put == Append(stat, Ev("PutObject", bucketName, objectKey,
                            fault # "s3" /\ Servable(bucketName)))
      IN  IF filePath \notin DOMAIN fs THEN Return(NewSDKError, open)
          ELSE IF fault = "stat" THEN Return(NewSDKError, stat)
          ELSE IF (fault = "s3" \/ ~Servable(bucketName)) THEN Return(NewS3Error, put)
          ELSE IF Len(fs[filePath]) = 0
          THEN [Return(NewValidationError, put) EXCEPT
                  !.objects = PutObject(bucketName, objectKey, fs[filePath])]
          ELSE [Return(Nil, put) EXCEPT
                  !.objects = PutObject(bucketName, objectKey, fs[filePath])]

UploadFileWithDateDestination(bucketName, directory, filePath, date, fault) ==
    IF bucketName = "" THEN Return(NewValidationError, <<>>)
    ELSE IF directory = <<>> THEN Return(NewValidationError, <<>>)
    ELSE IF filePath = <<>> THEN Return(NewValidationError, <<>>)
    ELSE IF IsZero(date) THEN Return(NewValidationError, <<>>)
    ELSE
      LET objectKey == generateObjectKeyByDate(directory, filePath, date)
          open == <<Ev("os.Open", "", filePath, filePath \in DOMAIN fs)>>
          stat == Append(open, Ev("File.Stat", "", filePath, fault # "stat"))
          put == Append(stat, Ev("PutObject", bucketName, objectKey,
                            fault # "s3" /\ Servable(bucketName)))
      IN  IF filePath \notin DOMAIN fs THEN Return(NewSDKError, open)
          ELSE IF fault = "stat" THEN Return(NewSDKError, stat)
          ELSE IF Len(fs[filePath]) = 0 THEN Return(NewValidationError, stat)
          ELSE IF (fault = "s3" \/ ~Servable(bucketName)) THEN Return(NewS3Error, put)
          ELSE [Return(Nil, put) EXCEPT
                  !.objects = PutObject(bucketName, objectKey, fs[filePath])]

\* DeleteFolderByDate up to the point where deleteObjects is built
DeleteFolderByDate(bucketName, directory, date, fault) ==
    IF bucketName = "" THEN Return(NewValidationError, <<>>)
    ELSE IF directory = <<>> THEN Return(NewValidationError, <<>>)
    ELSE IF IsZero(date) THEN Return(NewValidationError, <<>>)
    ELSE
      LET objectKey == generateFolderDestinationByDate(directory, date)
          ok == fault # "s3" /\ Servable(bucketName)
          contents == IF ok THEN ListObjectsV2(bucketName, objectKey) ELSE <<>>
          log == <<EvList(bucketName, objectKey, contents, ok)>>
          deleteObjects == BuildDeleteObjects(contents)
      IN  IF ~ok THEN Return(NewS3Error, log)
          ELSE IF Len(deleteObjects) = 0 THEN Return(Nil, log)
          ELSE Listed(deleteObjects, log)

\* DeleteFolder up to the point where deleteObjects is built
DeleteFolder(bucketName, directory, fault) ==
    IF bucketName = "" THEN Return(NewValidationError, <<>>)
    ELSE IF directory = <<>> THEN Return(NewValidationError, <<>>)
    ELSE
      LET ok == fault # "s3" /\ Servable(bucketName)
          contents == IF ok THEN ListObjectsV2(bucketName, directory) ELSE <<>>
          log == <<EvList(bucketName, directory, contents, ok)>>
          deleteObjects == BuildDeleteObjects(contents)
      IN  IF ~ok THEN Return(NewS3Error, log)
          ELSE IF Len(deleteObjects) = 0 THEN Return(Nil, log)
          ELSE Listed(deleteObjects, log)

\* a delete step that lists the prefix again and removes what it finds then
DeleteListedObjectsRelisting(bucketName, deleteObjects, log, fault) ==
    LET keys == Matching(bucketName, log[1].key)
        del == Append(log, EvKeys("DeleteObjects", bucketName, keys,
                                fault # "s3" /\ Servable(bucketName)))
    IN  IF (fault = "s3" \/ ~Servable(bucketName)) THEN Return(NewS3Error, del)
        ELSE [Return(Nil, del) EXCEPT !.objects = DeleteObjects(bucketName, keys)]

\* the DeleteObjects request that ends DeleteFolderByDate and DeleteFolder
DeleteListedObjects(bucketName, deleteObjects, log, fault) ==
    LET keys == Range(deleteObjects)
        del == Append(log, EvKeys("DeleteObjects", bucketName, keys,
                                fault # "s3" /\ Servable(bucketName)))
    IN  IF (fault = "s3" \/ ~Servable(bucketName)) THEN Return(NewS3Error, del)
        ELSE [Return(Nil, del) EXCEPT !.objects = DeleteObjects(bucketName, keys)]

DeleteObject(bucketName, key, fault) ==
    IF bucketName = "" THEN Return(NewValidationError, <<>>)
    ELSE IF key = <<>> THEN Return(NewValidationError, <<>>)
    ELSE
      LET log == <<Ev("DeleteObject", bucketName, key,
                    fault # "s3" /\ Servable(bucketName))>>
      IN  IF (fault = "s3" \/ ~Servable(bucketName)) THEN Return(NewS3Error, log)
          ELSE [Return(Nil, log) EXCEPT
                  !.objects = DeleteObjects(bucketName, {key})]

IsObjectExists(bucketName, key, fault) ==
    IF bucketName = "" THEN Return(NewValidationError, <<>>)
    ELSE IF key = <<>> THEN Return(NewValidationError, <<>>)
    ELSE
      LET k == Trim(key)
          ok == fault # "s3" /\ Servable(bucketName)
          contents == IF ok THEN ListObjectsV2(bucketName, k) ELSE <<>>
          log == <<EvList(bucketName, k, contents, ok)>>
      IN  IF ~ok THEN Return(NewS3Error, log)
          ELSE IF Len(contents) = 0 THEN Return(Nil, log)
          ELSE [Return(Nil, log) EXCEPT !.exists = TRUE]

\* GetObject with os.Create moved before the request
GetObjectCreatesFirst(bucketName, key, localPath, fault) ==
    IF bucketName = "" THEN Return(NewValidationError, <<>>)
    ELSE IF key = <<>> THEN Return(NewValidationError, <<>>)
    ELSE IF localPath = <<>> THEN Return(NewValidationError, <<>>)
    ELSE
      LET k == Trim(key)
          create == <<Ev("os.Create", "", localPath, fault # "create")>>
          get == Append(create, Ev("GetObject", bucketName, k,
                    fault # "s3" /\ Servable(bucketName)
                      /\ <<bucketName, k>> \in DOMAIN objects))
          read == Append(get, Ev("io.ReadAll", "", localPath, fault # "read"))
          write == Append(read, Ev("File.Write", "", localPath, fault # "write"))
      IN  IF fault = "create" THEN Return(NewSDKError, create)
          ELSE IF ~(fault # "s3" /\ Servable(bucketName)
                      /\ <<bucketName, k>> \in DOMAIN objects)
          THEN [Return(NewS3Error, get) EXCEPT !.fs = WriteFile(localPath, <<>>)]
          ELSE IF fault = "read"
          THEN [Return(NewSDKError, read) EXCEPT !.fs = WriteFile(localPath, <<>>)]
          ELSE IF fault = "write"
          THEN [Return(NewSDKError, write) EXCEPT !.fs = WriteFile(localPath, <<>>)]
          ELSE [Return(Nil, write) EXCEPT
                  !.fs = WriteFile(localPath, objects[<<bucketName, k>>])]

GetObject(bucketName, key, localPath, fault) ==
    IF bucketName = "" THEN Return(NewValidationError, <<>>)
    ELSE IF key = <<>> THEN Return(NewValidationError, <<>>)
    ELSE IF localPath = <<>> THEN Return(NewValidationError, <<>>)
    ELSE
      LET k == Trim(key)
          get == <<Ev("GetObject", bucketName, k,
                    fault # "s3" /\ Servable(bucketName)
                      /\ <<bucketName, k>> \in DOMAIN objects)>>
          create == Append(get, Ev("os.Create", "", localPath, fault # "create"))
          read == Append(create, Ev("io.ReadAll", "", localPath, fault # "read"))
          write == Append(read, Ev("File.Write", "", localPath, fault # "write"))
      IN  IF ~(fault # "s3" /\ Servable(bucketName) /\ <<bucketName, k>> \in DOMAIN objects)
          THEN Return(NewS3Error, get)
          ELSE IF fault = "create" THEN Return(NewSDKError, create)
          ELSE IF fault = "read"
          THEN [Return(NewSDKError, read) EXCEPT !.fs = WriteFile(localPath, <<>>)]
          ELSE IF fault = "write"
          THEN [Return(NewSDKError, write) EXCEPT !.fs = WriteFile(localPath, <<>>)]
          ELSE [Return(Nil, write) EXCEPT
                  !.fs = WriteFile(localPath, objects[<<bucketName, k>>])]

CreateBucket(bucketName, fault) ==
    IF bucketName = "" THEN Return(NewValidationError, <<>>)
    ELSE
      LET log == <<Ev("CreateBucket", bucketName, <<>>,
                    fault # "s3" /\ bucketName \notin buckets)>>
      IN  IF fault = "s3" \/ bucketName \in buckets THEN Return(NewS3Error, log)
          ELSE [Return(Nil, log) EXCEPT !.buckets = buckets \cup {bucketName}]

-----------------------------------------------------------------------------
(* Revision "plain" (client.go; part_001:1-258): no validation, errors     *)
(* built by fmt.Errorf.                                                    *)

UploadFileBasePlain(bucketName, directory, filePath, externalFilename, fault) ==
    LET objectKey == generateObjectKeyBasePlain(directory, externalFilename)
        open == <<Ev("os.Open", "", filePath, filePath \in DOMAIN fs)>>
        put == Append(open, Ev("PutObject", bucketName, objectKey,
                            fault # "s3" /\ Servable(bucketName)))
    IN  IF filePath \notin DOMAIN fs THEN Return(Errorf, open)
        ELSE IF (fault = "s3" \/ ~Servable(bucketName)) THEN Return(Errorf, put)
        ELSE [Return(Nil, put) EXCEPT
                !.objects = PutObject(bucketName, objectKey, fs[filePath])]

UploadFileWithDateDestinationPlain(bucketName, directory, filePath, date, fault) ==
    LET objectKey == generateObjectKeyByDatePlain(directory, filePath, date)
        open == <<Ev("os.Open", "", filePath, filePath \in DOMAIN fs)>>
        put == Append(open, Ev("PutObject", bucketName, objectKey,
                            fault # "s3" /\ Servable(bucketName)))
    IN  IF filePath \notin DOMAIN fs THEN Return(Errorf, open)
        ELSE IF (fault = "s3" \/ ~Servable(bucketName)) THEN Return(Errorf, put)
        ELSE [Return(Nil, put) EXCEPT
                !.objects = PutObject(bucketName, objectKey, fs[filePath])]

DeleteFolderByDatePlain(bucketName, directory, date, fault) ==
    LET objectKey == generateFolderDestinationByDatePlain(directory, date)
        ok == fault # "s3" /\ Servable(bucketName)
        contents == IF ok THEN ListObjectsV2(bucketName, objectKey) ELSE <<>>
        log == <<EvList(bucketName, objectKey, contents, ok)>>
        deleteObjects == BuildDeleteObjects(contents)
    IN  IF ~ok THEN Return(Errorf, log)
        ELSE IF Len(deleteObjects) = 0 THEN Return(Nil, log)
        ELSE Listed(deleteObjects, log)

DeleteFolderPlain(bucketName, directory, fault) ==
    LET ok == fault # "s3" /\ Servable(bucketName)
        contents == IF ok THEN ListObjectsV2(bucketName, directory) ELSE <<>>
        log == <<EvList(bucketName, directory, contents, ok)>>
        deleteObjects == BuildDeleteObjects(contents)
    IN  IF ~ok THEN Return(Errorf, log)
        ELSE IF Len(deleteObjects) = 0 THEN Return(Nil, log)
        ELSE Listed(deleteObjects, log)

\* the DeleteObjects request of revisions "plain" and "logger"
DeleteListedObjectsPlain(bucketName, deleteObjects, log, fault) ==
    LET keys == Range(deleteObjects)
        del == Append(log, EvKeys("DeleteObjects", bucketName, keys,
                                fault # "s3" /\ Servable(bucketName)))
    IN  IF (fault = "s3" \/ ~Servable(bucketName)) THEN Return(Errorf, del)
        ELSE [Return(Nil, del) EXCEPT !.objects = DeleteObjects(bucketName, keys)]

DeleteObjectPlain(bucketName, key, fault) ==
    LET log == <<Ev("DeleteObject", bucketName, key,
                    fault # "s3" /\ Servable(bucketName))>>
    IN  IF (fault = "s3" \/ ~Servable(bucketName)) THEN Return(Errorf, log)
        ELSE [Return(Nil, log) EXCEPT
                !.objects = DeleteObjects(bucketName, {key})]

IsObjectExistsPlain(bucketName, key, fault) ==
    LET ok == fault # "s3" /\ Servable(bucketName)
        contents == IF ok THEN ListObjectsV2(bucketName, key) ELSE <<>>
        log == <<EvList(bucketName, key, contents, ok)>>
    IN  IF ~ok THEN Return(Errorf, log)
        ELSE IF Len(contents) > 0 THEN [Return(Nil, log) EXCEPT !.exists = TRUE]
        ELSE Return(Nil, log)

GetObjectPlain(bucketName, key, localPath, fault) ==
    LET get == <<Ev("GetObject", bucketName, key,
                    fault # "s3" /\ Servable(bucketName)
                      /\ <<bucketName, key>> \in DOMAIN objects)>>
        create == Append(get, Ev("os.Create", "", localPath,
                                fault # "create" /\ localPath # <<>>))
        read == Append(create, Ev("io.ReadAll", "", localPath, fault # "read"))
        write == Append(read, Ev("File.Write", "", localPath, fault # "write"))
    IN  IF ~(fault # "s3" /\ Servable(bucketName) /\ <<bucketName, key>> \in DOMAIN objects)
        THEN Return(Errorf, get)
        ELSE IF fault = "create" \/ localPath = <<>> THEN Return(Errorf, create)
        ELSE IF fault = "read"
        THEN [Return(Errorf, read) EXCEPT !.fs = WriteFile(localPath, <<>>)]
        ELSE IF fault = "write"
        THEN [Return(Errorf, write) EXCEPT !.fs = WriteFile(localPath, <<>>)]
        ELSE [Return(Nil, write) EXCEPT
                !.fs = WriteFile(localPath, objects[<<bucketName, key>>])]

CreateBucketPlain(bucketName, fault) ==
    LET log == <<Ev("CreateBucket", bucketName, <<>>,
                  fault # "s3" /\ bucketName \notin buckets /\ bucketName # "")>>
    IN  IF fault = "s3" \/ bucketName \in buckets \/ bucketName = ""
        THEN Return(Errorf, log)
        ELSE [Return(Nil, log) EXCEPT !.buckets = buckets \cup {bucketName}]

-----------------------------------------------------------------------------
(* Revision "logger" (part_001:260-418): errors are logged and returned as *)
(* they are; a failed listing ends the process.                            *)

UploadFileLogger(bucketName, objectKey, fileName, fault) ==
    LET open == <<Ev("os.Open", "", fileName, fileName \in DOMAIN fs)>>
        put == Append(open, Ev("PutObject", bucketName, objectKey,
                            fault # "s3" /\ Servable(bucketName)))
    IN  IF fileName \notin DOMAIN fs THEN Return(RawErr, open)
        ELSE IF (fault = "s3" \/ ~Servable(bucketName)) THEN Return(RawErr, put)
        ELSE [Return(Nil, put) EXCEPT
                !.objects = PutObject(bucketName, objectKey, fs[fileName])]

UploadFileWithDateDestinationLogger(bucketName, directory, filePath, date, fault) ==
    LET objectKey == generateObjectKeyByDatePlain(directory, filePath, date)
        open == <<Ev("os.Open", "", filePath, filePath \in DOMAIN fs)>>
        put == Append(open, Ev("PutObject", bucketName, objectKey,
                            fault # "s3" /\ Servable(bucketName)))
    IN  IF filePath \notin DOMAIN fs THEN Return(RawErr, open)
        ELSE IF (fault = "s3" \/ ~Servable(bucketName)) THEN Return(RawErr, put)
        ELSE [Return(Nil, put) EXCEPT
                !.objects = PutObject(bucketName, objectKey, fs[filePath])]

\* no check for an empty deleteObjects: the request is sent in any case
DeleteFolderByDateLogger(bucketName, directory, date, fault) ==
    LET objectKey == generateFolderDestinationByDatePlain(directory, date)
        ok == fault # "s3" /\ Servable(bucketName)
        contents == IF ok THEN ListObjectsV2(bucketName, objectKey) ELSE <<>>
        log == <<EvList(bucketName, objectKey, contents, ok)>>
        deleteObjects == BuildDeleteObjects(contents)
    IN  IF ~ok THEN Exit(log)
        ELSE Listed(deleteObjects, log)

CreateBucketLogger(bucketName, fault) ==
    LET log == <<Ev("CreateBucket", bucketName, <<>>,
                  fault # "s3" /\ bucketName \notin buckets /\ bucketName # "")>>
    IN  IF fault = "s3" \/ bucketName \in buckets \/ bucketName = ""
        THEN Return(RawErr, log)
        ELSE [Return(Nil, log) EXCEPT !.buckets = buckets \cup {bucketName}]

-----------------------------------------------------------------------------
(* The gateway as a state machine: one caller invokes the operations one   *)
(* after the other; other callers upload through the same Client while a   *)
(* folder delete of that caller stands between its two requests.           *)

\* a key builder not applied yet
Unset == <<"unset">>

\* the invocation before was no dated upload that succeeded
NoUpload == [bucket |-> "", arg |-> <<>>, path |-> <<>>, date |-> ZeroDate]

\* no invocation yet
Idle ==
    [op |-> "none", pc |-> "idle", bucket |-> "", arg |-> <<>>,
     path |-> <<>>, name |-> <<>>, date |-> ZeroDate, ret |-> Nil,
     exists |-> FALSE, listed |-> <<>>, log |-> <<>>,
     before |-> [objects |-> <<>>, fs |-> <<>>]]

SeedDate == Date(2024, 9, 30, 0)
SeedDir == <<"a">>
SeedKey(f) == generateObjectKeyByDate(SeedDir, f, SeedDate)

\* a store filled by earlier uploads
SeedObjects ==
    [x \in {<<"b1", SeedKey(<<"f">>)>>, <<"b1", SeedKey(<<"g">>)>>,
            <<"b1", SeedKey(<<"h">>)>>, <<"b1", <<"a", "/", "z">>>>,
            <<"b2", SeedKey(<<"f">>)>>} |-> <<Len(x[2])>>]

\* the local files: x/f and k hold one byte each, e is empty, nothing else
\* exists
LocalFiles ==
    [x \in {<<"x", "/", "f">>, <<"k">>, <<"e">>} |->
        IF x = <<"e">> THEN <<>> ELSE <<7>>]

BucketArgs == {"", "b1"}
DirArgs == {<<>>, <<"a">>, <<"/", "a", "/">>, <<"/", "q", "/">>, <<"/">>}
PathArgs == {<<>>, <<"x", "/", "f">>, <<"e">>, <<"n">>}
NameArgs == {<<>>, <<"g">>}
DateArgs == {ZeroDate, SeedDate}
KeyArgs == {<<>>, <<"a">>, <<"/", "a", "/">>, <<"q">>, SeedKey(<<"f">>)}
LocalArgs == {<<>>, <<"o">>, <<"k">>}
\* the arguments of the uploads of another caller
PeerBucketArgs == {"b1"}
PeerDirArgs == {<<"a">>, <<"/">>}
PeerPathArgs == {<<"x", "/", "f">>, <<"k">>, <<"e">>}
NewBucketArgs == {"", "b1", "b3"}
\* the external call of an invocation that fails, if any
S3Faults == {"none", "s3"}
UploadFaults == {"none", "stat", "s3"}
GetFaults == {"none", "s3", "create", "read", "write"}

Init ==
    /\ rev \in Revisions
    /\ kin = [d |-> <<>>, p |-> <<>>, t |-> ZeroDate]
    /\ kout = [byDate |-> Unset, base |-> Unset, folder |-> Unset]
    /\ buckets = {"b1", "b2"}
    /\ objects = SeedObjects
    /\ fs = LocalFiles
    /\ call = Idle
    /\ nops = 0
    /\ conc = {}
    /\ last = NoUpload

\* a new invocation may start: the caller holds no unread result and the
\* process lives
CanInvoke == call.pc = "idle" /\ nops < MaxOps

\* the caller has taken the result of the invocation that returned; what is
\* left of the invocation is its effect on the provider and the files
TakeResult ==
    /\ call.pc = "done"
    /\ call' = Idle
    /\ conc' = {}
    /\ last' = IF call.op = "UploadFileWithDateDestination" /\ call.ret = Nil
               THEN [bucket |-> call.bucket, arg |-> call.arg,
                     path |-> call.path, date |-> call.date]
               ELSE NoUpload
    /\ UNCHANGED <<rev, kin, kout, buckets, objects, fs, nops>>

\* the invocation op(b, a, p, n, t) starts and runs to outcome out
Run(op, b, a, p, n, t, out) ==
    /\ call' = [op |-> op, pc |-> out.pc, bucket |-> b, arg |-> a,
                path |-> p, name |-> n, date |-> t, ret |-> out.ret,
                exists |-> out.exists, listed |-> out.listed, log |-> out.log,
                before |-> [objects |-> objects, fs |-> fs]]
    /\ objects' = out.objects
    /\ fs' = out.fs
    /\ buckets' = out.buckets
    /\ nops' = nops + 1
    /\ last' = IF op = "DeleteFolderByDate" THEN last ELSE NoUpload
    /\ UNCHANGED <<rev, kin, kout, conc>>

InvokeUploadFile ==
    /\ CanInvoke
    /\ rev = "logger"
    /\ \E b \in BucketArgs, k \in KeyArgs, p \in PathArgs, fault \in S3Faults :
         Run("UploadFile", b, k, p, <<>>, ZeroDate, UploadFileLogger(b, k, p, fault))

InvokeUploadFileBase ==
    /\ CanInvoke
    /\ rev # "logger"
    /\ \E b \in BucketArgs, d \in DirArgs, p \in PathArgs, n \in NameArgs,
          fault \in UploadFaults :
         Run("UploadFileBase", b, d, p, n, ZeroDate,
             IF rev = "validating"
             THEN UploadFileBase(b, d, p, n, fault)
             ELSE UploadFileBasePlain(b, d, p, n, fault))

InvokeUploadFileWithDateDestination ==
    /\ CanInvoke
    /\ \E b \in BucketArgs, d \in DirArgs, p \in PathArgs, t \in DateArgs,
          fault \in UploadFaults :
         Run("UploadFileWithDateDestination", b, d, p, <<>>, t,
             CASE rev = "validating" ->
                    UploadFileWithDateDestination(b, d, p, t, fault)
               [] rev = "plain" ->
                    UploadFileWithDateDestinationPlain(b, d, p, t, fault)
               [] rev = "logger" ->
                    UploadFileWithDateDestinationLogger(b, d, p, t, fault))

InvokeDeleteFolderByDate ==
    /\ CanInvoke
    /\ \E b \in BucketArgs, d \in DirArgs, t \in DateArgs, fault \in S3Faults :
         Run("DeleteFolderByDate", b, d, <<>>, <<>>, t,
             CASE rev = "validating" -> DeleteFolderByDate(b, d, t, fault)
               [] rev = "plain" -> DeleteFolderByDatePlain(b, d, t, fault)
               [] rev = "logger" -> DeleteFolderByDateLogger(b, d, t, fault))

InvokeDeleteFolder ==
    /\ CanInvoke
    /\ rev # "logger"
    /\ \E b \in BucketArgs, d \in KeyArgs, fault \in S3Faults :
         Run("DeleteFolder", b, d, <<>>, <<>>, ZeroDate,
             IF rev = "validating"
             THEN DeleteFolder(b, d, fault)
             ELSE DeleteFolderPlain(b, d, fault))

\* the second request of DeleteFolderByDate and DeleteFolder
DeleteListed ==
    /\ call.pc = "listed"
    /\ \E fault \in S3Faults :
         LET out == IF rev = "validating"
                    THEN DeleteListedObjects(call.bucket, call.listed, call.log, fault)
                    ELSE DeleteListedObjectsPlain(call.bucket, call.listed, call.log, fault)
         IN  /\ call' = [call EXCEPT !.pc = out.pc, !.ret = out.ret, !.log = out.log]
             /\ objects' = out.objects
             /\ UNCHANGED <<rev, kin, kout, buckets, fs, nops, conc, last>>

\* Client holds no lock and no state of its own, so another goroutine may run
\* an operation on it at any time.  Every operation but the folder deletes
\* acts on the provider in one request, so the only interleaving that is not
\* a sequence of whole operations is an operation of another caller between
\* the listing and the DeleteObjects request of a folder delete.
CanInterleave == call.pc = "listed" /\ nops < MaxOps

\* the upload op of another caller ran to outcome out
RunPeer(op, out) ==
    /\ conc' = conc \cup
                 {[op |-> op, ret |-> out.ret,
                   puts |-> {out.log[i] : i \in {j \in DOMAIN out.log :
                                             out.log[j].api = "PutObject"}}]}
    /\ objects' = out.objects
    /\ nops' = nops + 1
    /\ UNCHANGED <<rev, kin, kout, buckets, fs, call, last>>

ConcurrentUploadFileBase ==
    /\ CanInterleave
    /\ rev # "logger"
    /\ \E b \in PeerBucketArgs, d \in PeerDirArgs, p \in PeerPathArgs,
          n \in NameArgs \ {<<>>}, fault \in UploadFaults :
         RunPeer("UploadFileBase",
                 IF rev = "validating"
                 THEN UploadFileBase(b, d, p, n, fault)
                 ELSE UploadFileBasePlain(b, d, p, n, fault))

ConcurrentUploadFileWithDateDestination ==
    /\ CanInterleave
    /\ \E b \in PeerBucketArgs, d \in PeerDirArgs, p \in PeerPathArgs,
          t \in DateArgs \ {ZeroDate}, fault \in UploadFaults :
         RunPeer("UploadFileWithDateDestination",
                 CASE rev = "validating" ->
                        UploadFileWithDateDestination(b, d, p, t, fault)
                   [] rev = "plain" ->
                        UploadFileWithDateDestinationPlain(b, d, p, t, fault)
                   [] rev = "logger" ->
                        UploadFileWithDateDestinationLogger(b, d, p, t, fault))

InvokeDeleteObject ==
    /\ CanInvoke
    /\ rev # "logger"
    /\ \E b \in BucketArgs, k \in KeyArgs, fault \in S3Faults :
         Run("DeleteObject", b, k, <<>>, <<>>, ZeroDate,
             IF rev = "validating"
             THEN DeleteObject(b, k, fault)
             ELSE DeleteObjectPlain(b, k, fault))

InvokeIsObjectExists ==
    /\ CanInvoke
    /\ rev # "logger"
    /\ \E b \in BucketArgs, k \in KeyArgs, fault \in S3Faults :
         Run("IsObjectExists", b, k, <<>>, <<>>, ZeroDate,
             IF rev = "validating"
             THEN IsObjectExists(b, k, fault)
             ELSE IsObjectExistsPlain(b, k, fault))

InvokeGetObject ==
    /\ CanInvoke
    /\ rev # "logger"
    /\ \E b \in BucketArgs, k \in KeyArgs, p \in LocalArgs, fault \in GetFaults :
         Run("GetObject", b, k, p, <<>>, ZeroDate,
             IF rev = "validating"
             THEN GetObject(b, k, p, fault)
             ELSE GetObjectPlain(b, k, p, fault))

InvokeCreateBucket ==
    /\ CanInvoke
    /\ \E b \in NewBucketArgs, fault \in S3Faults :
         Run("CreateBucket", b, <<>>, <<>>, <<>>, ZeroDate,
             CASE rev = "validating" -> CreateBucket(b, fault)
               [] rev = "plain" -> CreateBucketPlain(b, fault)
               [] rev = "logger" -> CreateBucketLogger(b, fault))

Next ==
    \/ TakeResult
    \/ InvokeUploadFile
    \/ InvokeUploadFileBase
    \/ InvokeUploadFileWithDateDestination
    \/ InvokeDeleteFolderByDate
    \/ InvokeDeleteFolder
    \/ DeleteListed
    \/ ConcurrentUploadFileBase
    \/ ConcurrentUploadFileWithDateDestination
    \/ InvokeDeleteObject
    \/ InvokeIsObjectExists
    \/ InvokeGetObject
    \/ InvokeCreateBucket

Spec == Init /\ [][Next]_vars

-----------------------------------------------------------------------------
(* The key builders as a specification of their own: the inputs are drawn  *)
(* in KeysInit and each action applies one builder to them.                *)

KeyAlphabet == {Slash, "a"}

KeyDates ==
    { ZeroDate, Date(1, 1, 1, 1), Date(999, 12, 5, 0),
      Date(2022, 1, 1, 0), Date(2024, 9, 30, 0) }

KeysInit ==
    /\ rev \in Revisions
    /\ kin \in [d : StringsUpTo(KeyAlphabet, MaxLen),
                p : StringsUpTo(KeyAlphabet, MaxLen),
                t : KeyDates]
    /\ kout = [byDate |-> Unset, base |-> Unset, folder |-> Unset]
    /\ buckets = {}
    /\ objects = <<>>
    /\ fs = <<>>
    /\ call = Idle
    /\ nops = 0
    /\ conc = {}
    /\ last = NoUpload

GatewayUnchanged ==
    UNCHANGED <<rev, kin, buckets, objects, fs, call, nops, conc, last>>

CallKeyByDate ==
    /\ kout.byDate = Unset
    /\ kout' = [kout EXCEPT !.byDate = KeyByDate(kin.d, kin.p, kin.t)]
    /\ GatewayUnchanged

CallKeyBase ==
    /\ HasKeyBase
    /\ kout.base = Unset
    /\ kout' = [kout EXCEPT !.base = KeyBase(kin.d, kin.p)]
    /\ GatewayUnchanged

CallFolderByDate ==
    /\ kout.folder = Unset
    /\ kout' = [kout EXCEPT !.folder = FolderByDate(kin.d, kin.t)]
    /\ GatewayUnchanged

KeysNext == CallKeyByDate \/ CallKeyBase \/ CallFolderByDate

KeysSpec == KeysInit /\ [][KeysNext]_vars

-----------------------------------------------------------------------------
(* Properties of the key builders (specification KeysSpec)                 *)

\* d without its leading and trailing "/" characters: the part of d between
\* a run of "/" in front and a run of "/" behind that itself neither starts
\* nor ends with "/"
StripSlashes(d) ==
    CHOOSE s \in {SubSeq(d, i, j) : i \in 1..(Len(d) + 1), j \in 0..Len(d)} :
        \E i \in 1..(Len(d) + 1), j \in 0..Len(d) :
            /\ s = SubSeq(d, i, j)
            /\ \A k \in 1..(i - 1) : d[k] = Slash
            /\ \A k \in (j + 1)..Len(d) : d[k] = Slash
            /\ s # <<>> => (s[1] # Slash /\ s[Len(s)] # Slash)

\* the last "/"-separated segment of p: the suffix of p after its last "/"
LastSegment(p) ==
    CHOOSE s \in {SubSeq(p, k + 1, Len(p)) : k \in 0..Len(p)} :
        /\ \A i \in DOMAIN s : s[i] # Slash
        /\ Len(s) < Len(p) => p[Len(p) - Len(s)] = Slash

\* C1: for every directory d, file path p and date t, generateObjectKeyByDate
\* returns strip_slashes(d), the four partition fields of t, "/" and the last
\* segment of p.
C1_DatedKeyContract ==
    kout.byDate # Unset =>
        kout.byDate = StripSlashes(kin.d) \o LitYear \o YearField(kin.t)
                        \o LitMonth \o MonthField(kin.t)
                        \o LitDay \o DayField(kin.t)
                        \o LitDate \o DateOnly(kin.t)
                        \o <<Slash>> \o LastSegment(kin.p)

\* C2: for every directory d and filename f, generateObjectKeyBase returns
\* strip_slashes(d) + "/" + f, so slashes around d never change the key.
C2_BaseKeyContract ==
    kout.base # Unset =>
        /\ kout.base = StripSlashes(kin.d) \o <<Slash>> \o kin.p
        /\ kout.base = KeyBase(StripSlashes(kin.d), kin.p)

\* C3: for every directory d and date t, generateFolderDestinationByDate
\* returns strip_slashes(d) and the four partition fields, nothing after
\* them, whatever slashes surround d.
C3_FolderPrefixContract ==
    kout.folder # Unset =>
        /\ kout.folder = StripSlashes(kin.d) \o LitYear \o YearField(kin.t)
                           \o LitMonth \o MonthField(kin.t)
                           \o LitDay \o DayField(kin.t)
                           \o LitDate \o DateOnly(kin.t)
        /\ kout.folder = FolderByDate(StripSlashes(kin.d), kin.t)

\* C4: for a non-empty directory, the folder prefix of (d, t) is a strict
\* prefix of the dated key of (d, p, t), for any p: the key starts with it
\* and is longer.
C4_FolderPrefixOfKey ==
    (kin.d # <<>> /\ kout.byDate # Unset /\ kout.folder # Unset) =>
        /\ HasPrefix(kout.byDate, kout.folder)
        /\ Len(kout.byDate) > Len(kout.folder)

\* both builders applied, in the revision that trims, to a directory with
\* slashes around it and a path with a directory part
C4_Witness ==
    /\ rev = "validating"
    /\ kin.d = <<"/", "a", "/">>
    /\ kin.p = <<"a", "/", "a">>
    /\ kout.byDate # Unset
    /\ kout.folder # Unset

Digits == {Decimals[i] : i \in DOMAIN Decimals}

\* the value of the partition field named by lit in key: the characters that
\* follow lit up to the next "/" or the end of the key
FieldValue(key, lit) ==
    LET at == CHOOSE i \in 1..(Len(key) - Len(lit) + 1) :
                  SubSeq(key, i, i + Len(lit) - 1) = lit
        start == at + Len(lit)
        stops == {j \in start..Len(key) : key[j] = Slash}
        stop == IF stops = {} THEN Len(key)
                ELSE (CHOOSE j \in stops : \A k \in stops : j <= k) - 1
    IN  SubSeq(key, start, stop)

\* the partition fields of key have fixed widths and agree with each other
FixedWidthFields(key) ==
    LET y == FieldValue(key, LitYear)
        m == FieldValue(key, LitMonth)
        d == FieldValue(key, LitDay)
        iso == FieldValue(key, LitDate)
    IN  /\ Len(y) = 4 /\ \A i \in DOMAIN y : y[i] \in Digits
        /\ Len(m) = 2 /\ \A i \in DOMAIN m : m[i] \in Digits
        /\ Len(d) = 2 /\ \A i \in DOMAIN d : d[i] \in Digits
        /\ iso = y \o <<"-">> \o m \o <<"-">> \o d

\* C11: for every non-zero date, the partition fields of the dated key and of
\* the folder prefix have fixed widths, a year of 4 digits, a month of 2 and
\* a day of 2, and the _date= field is year "-" month "-" day of those fields.
C11_PartitionFieldWidths ==
    ~IsZero(kin.t) =>
        /\ kout.byDate # Unset => FixedWidthFields(kout.byDate)
        /\ kout.folder # Unset => FixedWidthFields(kout.folder)

-----------------------------------------------------------------------------
(* Properties of the gateway (specification Spec)                          *)

Uploads == {"UploadFileBase", "UploadFileWithDateDestination"}
FolderDeletes == {"DeleteFolderByDate", "DeleteFolder"}

Apis(log) == [i \in DOMAIN log |-> log[i].api]

\* the invocation listed successfully and got the keys ks
ListedKeys(ks) ==
    /\ call.op \in FolderDeletes
    /\ Len(call.log) >= 1
    /\ call.log[1].api = "ListObjectsV2"
    /\ call.log[1].ok
    /\ call.log[1].keys = ks

\* C5: UploadFileBase and UploadFileWithDateDestination called with an empty
\* bucket, directory or local path return a ValidationError and have opened
\* no file and sent no request, leaving the store and the files as they were.
C5_EmptyArgumentRejected ==
    (/\ call.op \in Uploads
     /\ call.pc = "done"
     /\ (call.bucket = "" \/ call.arg = <<>> \/ call.path = <<>>)) =>
        /\ call.ret.kind = "ValidationError"
        /\ call.log = <<>>
        /\ objects = call.before.objects
        /\ fs = call.before.fs

\* C6: when the listing of DeleteFolderByDate returns no object, the
\* invocation sends no DeleteObjects request and returns success.
C6_EmptyListingNoDelete ==
    (call.op = "DeleteFolderByDate" /\ ListedKeys({})) =>
        /\ \A i \in DOMAIN call.log : call.log[i].api # "DeleteObjects"
        /\ call.pc = "done" => call.ret = Nil

\* C7: when the listing of DeleteFolderByDate or DeleteFolder returns a
\* non-empty set of keys, the invocation sends exactly one DeleteObjects
\* request, on the bucket it listed, for exactly the listed keys, and removes
\* no object outside the listing.
C7_DeleteExactlyListed ==
    \A ks \in SUBSET {x[2] : x \in DOMAIN call.before.objects} :
        (ListedKeys(ks) /\ ks # {}) =>
            /\ call.pc \in {"listed", "done"}
            /\ call.pc = "listed" => Len(call.log) = 1
            /\ call.pc = "done" =>
                 /\ Len(call.log) = 2
                 /\ call.log[2].api = "DeleteObjects"
                 /\ call.log[2].bucket = call.bucket
                 /\ call.log[2].bucket = call.log[1].bucket
                 /\ call.log[2].keys = ks
                 /\ call.log[2].ok =>
                      DOMAIN call.before.objects \ DOMAIN objects =
                        {<<call.bucket, k>> : k \in ks}
                 /\ ~call.log[2].ok =>
                      DOMAIN call.before.objects \subseteq DOMAIN objects
            /\ \A x \in DOMAIN call.before.objects \ DOMAIN objects :
                 x[1] = call.bucket /\ x[2] \in ks

\* a folder delete that listed a full page while more objects match, sent
\* its one request and removed the page
C7_Witness ==
    /\ call.op = "DeleteFolderByDate"
    /\ call.pc = "done"
    /\ call.ret = Nil
    /\ Len(call.log) = 2
    /\ call.log[1].keys # {}
    /\ call.log[2].ok
    /\ DOMAIN objects # DOMAIN call.before.objects
    /\ \E x \in DOMAIN objects :
         x[1] = call.bucket /\ HasPrefix(x[2], call.log[1].key)

\* C8: IsObjectExists with non-empty arguments answers true exactly when some
\* stored object's key starts with the key stripped of its slashes.
C8_ExistsIffPrefixStored ==
    (/\ call.op = "IsObjectExists"
     /\ call.pc = "done"
     /\ call.bucket # ""
     /\ call.arg # <<>>
     /\ call.ret = Nil) =>
        (call.exists <=>
            \E x \in DOMAIN objects :
                x[1] = call.bucket /\ HasPrefix(x[2], StripSlashes(call.arg)))

\* C9 as claimed: every ValidationError is returned before any filesystem or
\* provider call was made, and wraps no cause.
C9_ValidationBeforeAnyCall ==
    (call.pc = "done" /\ call.ret.kind = "ValidationError") =>
        /\ call.log = <<>>
        /\ ~call.ret.cause

\* C9 as amended: every ValidationError is returned before any provider call
\* and wraps no cause; it is returned before any filesystem call too, except
\* the one for an empty local file, which UploadFileBase and
\* UploadFileWithDateDestination return after os.Open and File.Stat of that
\* file succeeded.
C9_ValidationBeforeProviderCall ==
    (call.pc = "done" /\ call.ret.kind = "ValidationError") =>
        /\ ~call.ret.cause
        /\ \A i \in DOMAIN call.log : call.log[i].api \notin S3Apis
        /\ objects = call.before.objects
        /\ fs = call.before.fs
        /\ \/ call.log = <<>>
           \/ /\ call.op \in Uploads
              /\ Apis(call.log) = <<"os.Open", "File.Stat">>
              /\ \A i \in DOMAIN call.log : call.log[i].ok
              /\ call.path \in DOMAIN fs
              /\ Len(fs[call.path]) = 0

\* a ValidationError returned after the file was opened
C9_Witness ==
    /\ call.pc = "done"
    /\ call.ret.kind = "ValidationError"
    /\ call.op = "UploadFileWithDateDestination"
    /\ call.log # <<>>

\* C10: no request is sent twice in an invocation, a failed call is the last
\* one and its error is returned to the caller; a folder delete whose listing
\* fails returns an error having sent nothing else and removed nothing.
C10_NoRetryErrorReturned ==
    /\ \A i, j \in DOMAIN call.log :
         (i # j /\ call.log[i].api \in S3Apis) => call.log[i].api # call.log[j].api
    /\ \A i \in DOMAIN call.log :
         ~call.log[i].ok =>
            /\ i = Len(call.log)
            /\ call.pc = "done"
            /\ call.ret.kind \notin {"nil", "fatal"}
    /\ (call.op \in FolderDeletes /\ Len(call.log) >= 1 /\ ~call.log[1].ok) =>
            /\ Len(call.log) = 1
            /\ call.pc = "done"
            /\ call.ret.kind \notin {"nil", "fatal"}
            /\ objects = call.before.objects

\* the objects other callers stored after the listing of the invocation
StoredAfterListing ==
    {<<e.bucket, e.key>> : e \in {x \in UNION {c.puts : c \in conc} : x.ok}}

\* no object the invocation started with is gone
NothingRemoved == DOMAIN call.before.objects \subseteq DOMAIN objects

\* C12: DeleteFolderByDate is not atomic.  Under every interleaving with
\* uploads of other callers, an object stored after the listing under a key
\* the listing did not return is not in the DeleteObjects request and is
\* still stored when DeleteFolderByDate returns success; and the invocation
\* removes objects at its DeleteObjects request only, so while it stands
\* between the listing and that request (where a failure of the process or
\* of the connection leaves it for ever) nothing has been removed.
C12_DeleteFolderByDateNotAtomic ==
    call.op = "DeleteFolderByDate" =>
        /\ call.pc = "listed" => NothingRemoved
        /\ (call.pc = "done" /\ call.ret = Nil) =>
              \A x \in StoredAfterListing :
                 x[2] \notin call.log[1].keys =>
                    /\ x \in DOMAIN objects
                    /\ \A i \in DOMAIN call.log :
                         call.log[i].api = "DeleteObjects" =>
                            x[2] \notin call.log[i].keys

\* DeleteFolderByDate returned success after another caller stored, between
\* its listing and its DeleteObjects request, an object under the prefix it
\* was deleting: the listed objects are gone, that object is there
C12_Witness ==
    /\ rev = "validating"
    /\ call.op = "DeleteFolderByDate"
    /\ call.pc = "done"
    /\ call.ret = Nil
    /\ Len(call.log) = 2
    /\ \E x \in StoredAfterListing :
         /\ x[1] = call.bucket
         /\ HasPrefix(x[2], call.log[1].key)
         /\ x[2] \notin call.log[1].keys
         /\ x \in DOMAIN objects
    /\ \A k \in call.log[1].keys : <<call.bucket, k>> \notin DOMAIN objects

\* the keys of S a listing of one page returns: those with fewer than
\* PageSize keys of S before them
FirstPage(S) ==
    {k \in S : Cardinality({o \in S : LexLess(o, k)}) < PageSize}

AllSlashes(d) == d # <<>> /\ \A i \in DOMAIN d : d[i] = Slash

\* the invocation has sent request api for key k
Sent(api, k) ==
    \E i \in DOMAIN call.log : call.log[i].api = api /\ call.log[i].key = k

UploadedKey == KeyByDate(last.arg, last.path, last.date)

\* the invocation is a DeleteFolderByDate of the bucket, directory and date
\* of the dated upload that succeeded just before it, it returned success,
\* no other caller was active, and what was stored under its prefix fits in
\* one page
RoundTrip ==
    /\ last # NoUpload
    /\ last.arg # <<>>
    /\ ~IsZero(last.date)
    /\ last.path \in DOMAIN fs
    /\ Len(fs[last.path]) > 0
    /\ call.op = "DeleteFolderByDate"
    /\ call.bucket = last.bucket
    /\ call.arg = last.arg
    /\ call.date = last.date
    /\ call.pc = "done"
    /\ call.ret = Nil
    /\ conc = {}
    /\ Cardinality({x \in DOMAIN call.before.objects :
                      /\ x[1] = call.bucket
                      /\ HasPrefix(x[2], FolderByDate(last.arg, last.date))})
          <= PageSize

\* C15: after UploadFileWithDateDestination(b, d, p, t) and then
\* DeleteFolderByDate(b, d, t) both succeeded, for a non-empty d, a non-empty
\* file p and a non-zero t, with no concurrent operation and a listing of one
\* page, the object the upload stored under the dated key of (d, p, t) is no
\* longer in the bucket, and every object of another bucket or with a key
\* that does not start with the folder prefix of (d, t) is as it was.
C15_UploadDeleteRoundTrip ==
    RoundTrip =>
        /\ <<last.bucket, UploadedKey>> \in DOMAIN call.before.objects
        /\ <<last.bucket, UploadedKey>> \notin DOMAIN objects
        /\ \A x \in DOMAIN call.before.objects :
             ~(x[1] = last.bucket
                 /\ HasPrefix(x[2], FolderByDate(last.arg, last.date))) =>
                /\ x \in DOMAIN objects
                /\ objects[x] = call.before.objects[x]
        /\ DOMAIN objects \subseteq DOMAIN call.before.objects

\* the round trip for a directory written with "/" around it, in the
\* revision that trims
C15_Witness ==
    /\ RoundTrip
    /\ rev = "validating"
    /\ last.arg = <<"/", "q", "/">>
    /\ Len(call.log) = 2
    /\ UploadedKey \in call.log[2].keys

\* the invocation made the external call api and it succeeded / it failed
Succeeded(api) ==
    \E i \in DOMAIN call.log : call.log[i].api = api /\ call.log[i].ok
Failed(api) ==
    \E i \in DOMAIN call.log : call.log[i].api = api /\ ~call.log[i].ok

\* every local file but the one at path is as the invocation found it
OtherFilesUnchanged(path) ==
    /\ DOMAIN fs \ {path} = DOMAIN call.before.fs \ {path}
    /\ \A x \in DOMAIN fs \ {path} : fs[x] = call.before.fs[x]

\* C16: GetObject creates or truncates the file at localPath only after the
\* provider request succeeded.  When validation fails or the request fails
\* the local files are as they were; after a successful call the file holds
\* the whole body of the object that was requested; a failure of reading the
\* body leaves the file created or truncated, that is, empty.
C16_LocalFileAfterFetch ==
    call.op = "GetObject" =>
        /\ \A i \in DOMAIN call.log :
             call.log[i].api \in {"os.Create", "io.ReadAll", "File.Write"} =>
                \E j \in 1..(i - 1) :
                    call.log[j].api = "GetObject" /\ call.log[j].ok
        /\ call.ret.kind = "ValidationError" =>
                call.log = <<>> /\ fs = call.before.fs
        /\ ~Succeeded("GetObject") => fs = call.before.fs
        /\ call.ret = Nil =>
                /\ Succeeded("GetObject")
                /\ call.path \in DOMAIN fs
                /\ fs[call.path] =
                     call.before.objects[<<call.bucket, call.log[1].key>>]
                /\ OtherFilesUnchanged(call.path)
        /\ Failed("io.ReadAll") =>
                /\ call.ret # Nil
                /\ call.path \in DOMAIN fs
                /\ fs[call.path] = <<>>
                /\ OtherFilesUnchanged(call.path)
        /\ objects = call.before.objects

\* GetObject fetched the object, truncated a local file that held data and
\* failed to read the body: the file is left empty
C16_Witness ==
    /\ call.op = "GetObject"
    /\ Succeeded("GetObject")
    /\ Failed("io.ReadAll")
    /\ call.path \in DOMAIN call.before.fs
    /\ call.before.fs[call.path] # <<>>
    /\ fs[call.path] = <<>>

====
